---- MODULE Spec2Model ----
(***************************************************************************)
(* Model of src/sudoku_solution.py: a variant-Sudoku solver with grey      *)
(* (mirror / palindrome) lines and purple (range / renban) lines.          *)
(*                                                                         *)
(* A board state is a record [b, p, ok]: b and p are the 9x9 tables of     *)
(* Board (values, candidate sets), ok = FALSE means ImpossibleSetup has    *)
(* been raised and is propagating.  The search of Board.recurse is an      *)
(* explicit stack of frames, one per active call of recurse.               *)
(***************************************************************************)
EXTENDS Integers, Sequences, FiniteSets, TLC

M == 9

Idx == 0..(M - 1)
Vals == 1..M
Cells == Idx \X Idx

\* Python's range(a, b)
range(a, b) == a..(b - 1)

(***************************************************************************)
(* Inputs.  Base is a valid solved grid; a puzzle is Base with some cells  *)
(* of Pool blanked, its values renamed, at most one clue overridden, and   *)
(* one line layout.                                                        *)
(***************************************************************************)
Base ==
  << <<1, 3, 4, 2, 5, 6, 7, 8, 9>>,
     <<2, 5, 7, 1, 8, 9, 3, 4, 6>>,
     <<6, 8, 9, 3, 4, 7, 1, 2, 5>>,
     <<3, 1, 2, 4, 6, 5, 8, 9, 7>>,
     <<4, 6, 8, 7, 9, 1, 2, 5, 3>>,
     <<7, 9, 5, 8, 2, 3, 4, 6, 1>>,
     <<5, 2, 1, 6, 3, 4, 9, 7, 8>>,
     <<8, 7, 6, 9, 1, 2, 5, 3, 4>>,
     <<9, 4, 3, 5, 7, 8, 6, 1, 2>> >>

MaxBlanks == 4
MaxShift == 1

\* cells that a puzzle may leave blank: (0,0), (0,3), (1,0), (1,3) hold
\* 1, 2, 2, 1 in Base, so blanking all four leaves two completions
Pool == { <<0, 0>>, <<0, 3>>, <<1, 0>>, <<1, 3>>, <<0, 1>> }

\* a clue override copies the clue of cell "from" into "cell"
NoOv == [cell |-> <<0, 0>>, from |-> <<0, 0>>]

\* line layouts and clue overrides: greys is a list of lines (lists of
\* cells), purples a list of lines (sets of cells)
Setups ==
  { [greys |-> << >>, purples |-> << >>, ov |-> NoOv],
    [greys |-> << <<<<0, 0>>, <<1, 3>>>> >>, purples |-> << >>, ov |-> NoOv],
    [greys |-> << <<<<0, 0>>, <<4, 4>>, <<1, 3>>>> >>, purples |-> << >>, ov |-> NoOv],
    [greys |-> << <<<<0, 0>>, <<1, 0>>>> >>, purples |-> << >>, ov |-> NoOv],
    [greys |-> << <<<<0, 0>>, <<1, 3>>>>, <<<<0, 3>>, <<1, 0>>>> >>, purples |-> << >>,
     ov |-> NoOv],
    [greys |-> << >>, purples |-> << {<<0, 0>>, <<0, 3>>} >>, ov |-> NoOv],
    [greys |-> << >>, purples |-> << {<<0, 0>>, <<0, 3>>, <<0, 1>>} >>, ov |-> NoOv],
    [greys |-> << >>, purples |-> << {<<0, 0>>, <<1, 3>>} >>, ov |-> NoOv],
    [greys |-> << <<<<0, 0>>, <<1, 3>>>> >>, purples |-> << {<<0, 0>>, <<0, 3>>} >>,
     ov |-> NoOv],
    \* two equal clues in a row, in a column, in a block
    [greys |-> << >>, purples |-> << >>, ov |-> [cell |-> <<0, 3>>, from |-> <<0, 0>>]],
    [greys |-> << >>, purples |-> << >>, ov |-> [cell |-> <<1, 0>>, from |-> <<0, 0>>]],
    [greys |-> << >>, purples |-> << >>, ov |-> [cell |-> <<1, 1>>, from |-> <<0, 0>>]],
    \* two different clues on the ends of a grey line
    [greys |-> << <<<<0, 0>>, <<1, 3>>>> >>, purples |-> << >>,
     ov |-> [cell |-> <<1, 3>>, from |-> <<0, 1>>]] }

VARIABLES
  grid,      \* the input board: 9x9, 0 = blank
  greys,     \* the grey lines
  purples,   \* the purple lines
  stack,     \* frames of the active calls of recurse, root first
  pc,        \* "new", "check", "select", "branch", "done"
  result     \* what the run ended with

vars == <<grid, greys, purples, stack, pc, result>>

(***************************************************************************)
(* Lookup tables built while reading the input.                            *)
(***************************************************************************)
\* lines of a list that contain a cell (1-based positions in the list)
GreyLinesOf(cell) ==
  { i \in 1..Len(greys) : \E j \in 1..Len(greys[i]) : greys[i][j] = cell }

PurpleLinesOf(cell) ==
  { i \in 1..Len(purples) : cell \in purples[i] }

SetMax(S) == CHOOSE x \in S : \A y \in S : y <= x

\* greyBoard[row][col]: 0, or 1 + the index of the (last read) line of the cell
isGrey(row, col) ==
  IF GreyLinesOf(<<row, col>>) = {} THEN 0 ELSE SetMax(GreyLinesOf(<<row, col>>))

\* greyIndexes[row][col]: the 0-based position of the cell in its grey line
greyIndexes(row, col) ==
  IF isGrey(row, col) = 0 THEN 0
  ELSE LET line == greys[isGrey(row, col)]
       IN SetMax({ j \in 1..Len(line) : line[j] = <<row, col>> }) - 1

\* purpleBoard[row][col]
isPurple(row, col) ==
  IF PurpleLinesOf(<<row, col>>) = {} THEN 0 ELSE SetMax(PurpleLinesOf(<<row, col>>))

(***************************************************************************)
(* Board: removePossibility, checkPossibility, addNumber.                  *)
(***************************************************************************)
RECURSIVE addNumber(_, _, _, _)
RECURSIVE checkAll(_, _, _, _)
RECURSIVE checkRange(_, _, _, _)
RECURSIVE LineSeq(_)
RECURSIVE purpleLine(_, _, _, _, _, _)

\* raise ImpossibleSetup
Raise(st) == [st EXCEPT !.ok = FALSE]

removePossibility(st, key, row, col) ==
  IF st.b[row][col] = 0 /\ key \in st.p[row][col]
  THEN [st EXCEPT !.p[row][col] = @ \ {key}]
  ELSE st

checkPossibility(st, key, row, col) ==
  IF st.b[row][col] = 0 /\ key \in st.p[row][col]
  THEN IF Cardinality(st.p[row][col]) = 0 THEN Raise(st)
       ELSE IF Cardinality(st.p[row][col]) = 1
            THEN addNumber(st, CHOOSE k \in st.p[row][col] : TRUE, row, col)
            ELSE st
  ELSE st

\* PeerCells without the cells of the row: the column, then the 3x3 square
PeerCellsNoRow(row, col) ==
  [n \in 1..M |-> <<n - 1, col>>]
  \o
  [n \in 1..9 |->
     <<(row - (row % 3)) + ((n - 1) \div 3), (col - (col % 3)) + ((n - 1) % 3)>>]

\* the cells addNumber visits for (row, col), in the order of its loops:
\* (row,i),(i,col) for i = 0..8, then the 3x3 square row by row
PeerCells(row, col) ==
  [n \in 1..(2 * M) |->
     IF n % 2 = 1 THEN <<row, (n - 1) \div 2>> ELSE <<(n - 1) \div 2, col>>]
  \o
  [n \in 1..9 |->
     <<(row - (row % 3)) + ((n - 1) \div 3), (col - (col % 3)) + ((n - 1) % 3)>>]

\* the removePossibility pass over cells: each call touches only its own cell,
\* so the pass is removePossibility applied cell by cell
removeAll(st, key, cells) ==
  LET visited == { cells[n] : n \in 1..Len(cells) }
  IN [st EXCEPT !.p = [i \in Idx |-> [j \in Idx |->
        IF <<i, j>> \in visited THEN removePossibility(st, key, i, j).p[i][j]
        ELSE st.p[i][j]]]]

\* the checkPossibility pass over cells[i..]; an exception ends it
checkAll(st, key, cells, i) ==
  IF i > Len(cells) \/ ~st.ok THEN st
  ELSE checkAll(checkPossibility(st, key, cells[i][1], cells[i][2]), key, cells, i + 1)

\* mirrorIndex with the counterpart taken at the cell's own index
mirrorIndexOwn(len, idx) == idx

\* index in the line of the counterpart of the cell at 0-based index idx
mirrorIndex(len, idx) == len - idx - 1

\* PurpleConflict without the test for an equal value
PurpleConflictNoEq(v, key, len) == v <= key - len \/ v >= key + len

\* the test that raises for an assigned cell of the purple line holding v
PurpleConflict(v, key, len) == v = key \/ v <= key - len \/ v >= key + len

\* PurpleLow with the upper end of the range one too far
PurpleLowWide(key, len) == range(0, key - len + 2)

\* the values removed from an unassigned cell of the purple line
PurpleLow(key, len) == range(0, key - len + 1)
PurpleHigh(key, len) == range(key + len, M)

\* for i in S, ascending (S is a range): checkPossibility(i, r, c)
checkRange(st, S, r, c) ==
  IF S = {} \/ ~st.ok THEN st
  ELSE LET i == CHOOSE x \in S : \A y \in S : x <= y
       IN checkRange(checkPossibility(st, i, r, c), S \ {i}, r, c)

\* for i in S: removePossibility(i, r, c)
removeRange(st, S, r, c) ==
  IF st.b[r][c] = 0 THEN [st EXCEPT !.p[r][c] = @ \ S] ELSE st

\* the else-branch for one cell (r, c) of the purple line
purpleCell(st, key, len, r, c) ==
  LET s1 == removeRange(st, PurpleLow(key, len), r, c)
      s2 == removeRange(s1, PurpleHigh(key, len), r, c)
      s3 == checkRange(s2, PurpleLow(key, len), r, c)
  IN checkRange(s3, PurpleHigh(key, len), r, c)

\* a purple line (a set) as the list its cells are visited in
LineSeq(line) ==
  IF line = {} THEN << >>
  ELSE LET c == CHOOSE x \in line : \A y \in line :
                  x[1] < y[1] \/ (x[1] = y[1] /\ x[2] <= y[2])
       IN <<c>> \o LineSeq(line \ {c})

\* the loop over the purple line, from cells[i]
purpleLine(st, key, row, col, cells, i) ==
  IF i > Len(cells) \/ ~st.ok THEN st
  ELSE LET r == cells[i][1]
           c == cells[i][2]
           s1 == IF st.b[r][c] # 0 /\ (r # row \/ c # col)
                 THEN IF PurpleConflict(st.b[r][c], key, Len(cells)) THEN Raise(st) ELSE st
                 ELSE purpleCell(st, key, Len(cells), r, c)
       IN purpleLine(s1, key, row, col, cells, i + 1)

\* addNumberSet that returns without comparing the values
addNumberSetSilent(st, key, row, col) == st

\* addNumberSet that raises for every cell that holds a value
addNumberSetStrict(st, key, row, col) == Raise(st)

\* addNumberSet that writes the new value over the old one
addNumberSetOverwrite(st, key, row, col) == [st EXCEPT !.b[row][col] = key]

\* the cell already holds a value
addNumberSet(st, key, row, col) ==
  IF st.b[row][col] # key THEN Raise(st) ELSE st

addNumber(st, key, row, col) ==
  IF ~st.ok THEN st
  ELSE IF st.b[row][col] # 0 THEN addNumberSet(st, key, row, col)
  ELSE LET s1 == [st EXCEPT !.b[row][col] = key]
           s2 == removeAll(s1, key, PeerCells(row, col))
           s3 == checkAll(s2, key, PeerCells(row, col), 1)
       IN IF ~s3.ok THEN s3
          ELSE IF isGrey(row, col) # 0
          THEN LET line == greys[isGrey(row, col)]
                   mc == line[mirrorIndex(Len(line), greyIndexes(row, col)) + 1]
               IN addNumber(s3, key, mc[1], mc[2])
          ELSE IF isPurple(row, col) # 0
          THEN purpleLine(s3, key, row, col, LineSeq(purples[isPurple(row, col)]), 1)
          ELSE s3

(***************************************************************************)
(* The calls the loop over a purple line makes, in the order it makes them. *)
(***************************************************************************)
RECURSIVE purpleCalls(_, _, _, _, _, _)

\* the lists a purple line (a set) can be visited in by "for r,c in line"
Orders(line) ==
  { q \in [1..Cardinality(line) -> line] :
      \A m \in DOMAIN q : \A n \in DOMAIN q : m # n => q[m] # q[n] }

\* the board when addNumber reaches the test for the lines: the value is set
\* and the two passes over row, column and 3x3 square are done
purpleEntry(st, key, row, col) ==
  checkAll(removeAll([st EXCEPT !.b[row][col] = key], key, PeerCells(row, col)),
           key, PeerCells(row, col), 1)

\* for i in S, ascending (S is a range): one call of op(i, r, c) each
rangeCalls(op, S, st, r, c) ==
  [n \in 1..Cardinality(S) |->
     [op |-> op, cell |-> <<r, c>>, empty |-> st.b[r][c] = 0]]

\* the calls of the else-branch for one cell (r, c) of the purple line
cellCalls(st, key, len, r, c) ==
  rangeCalls("removePossibility", PurpleLow(key, len), st, r, c)
  \o rangeCalls("removePossibility", PurpleHigh(key, len), st, r, c)
  \o rangeCalls("checkPossibility", PurpleLow(key, len), st, r, c)
  \o rangeCalls("checkPossibility", PurpleHigh(key, len), st, r, c)

\* the calls of the loop over the purple line, from cells[i]
purpleCalls(st, key, row, col, cells, i) ==
  IF i > Len(cells) \/ ~st.ok THEN << >>
  ELSE LET r == cells[i][1]
           c == cells[i][2]
           taken == st.b[r][c] # 0 /\ (r # row \/ c # col)
           s1 == IF taken
                 THEN IF PurpleConflict(st.b[r][c], key, Len(cells)) THEN Raise(st) ELSE st
                 ELSE purpleCell(st, key, Len(cells), r, c)
       IN (IF taken THEN << >> ELSE cellCalls(st, key, Len(cells), r, c))
          \o purpleCalls(s1, key, row, col, cells, i + 1)

(***************************************************************************)
(* Board.__init__ and updatePossibilities.                                 *)
(***************************************************************************)
RECURSIVE updateRow(_, _, _)
RECURSIVE updateRows(_, _)

\* for j in range(M), from column j of row i
updateRow(st, i, j) ==
  IF j >= M \/ ~st.ok THEN st
  ELSE IF st.b[i][j] # 0
       THEN updateRow(addNumber([st EXCEPT !.b[i][j] = 0], st.b[i][j], i, j), i, j + 1)
       ELSE updateRow(st, i, j + 1)

\* for i in range(M), from row i
updateRows(st, i) ==
  IF i >= M \/ ~st.ok THEN st
  ELSE updateRows(updateRow(st, i, 0), i + 1)

updatePossibilities(st) == updateRows(st, 0)

\* Board(b, ...): every cell starts with possibilities 1..9
NewBoard(b) ==
  updatePossibilities([b |-> b, p |-> [i \in Idx |-> [j \in Idx |-> Vals]], ok |-> TRUE])

(***************************************************************************)
(* checkGroup and check.                                                   *)
(***************************************************************************)
RECURSIVE checkGroupFrom(_, _, _)
RECURSIVE checkFrom(_, _, _)

\* Holding with the empty cells that have num as a candidate instead of the
\* cells whose value is num
HoldingCandidates(st, group, num) ==
  SelectSeq(group, LAMBDA c : st.b[c[1]][c[2]] = 0 /\ num \in st.p[c[1]][c[2]])

\* the cells of a group holding num, in group order
Holding(st, group, num) ==
  SelectSeq(group, LAMBDA c : st.b[c[1]][c[2]] = num)

checkGroupFrom(st, group, num) ==
  IF num > 9 \/ ~st.ok THEN st
  ELSE LET l == Holding(st, group, num)
       IN checkGroupFrom(IF Len(l) = 1 THEN addNumber(st, num, l[1][1], l[1][2]) ELSE st,
                         group, num + 1)

checkGroup(st, group) == checkGroupFrom(st, group, 1)

RowGroup(i) == [n \in 1..M |-> <<i, n - 1>>]
ColGroup(i) == [n \in 1..M |-> <<n - 1, i>>]
BlockGroup(i, j) == [n \in 1..9 |-> <<i * 3 + ((n - 1) \div 3), j * 3 + ((n - 1) % 3)>>]

\* the groups in the order check visits them
Groups ==
  [n \in 1..(2 * M) |-> IF n % 2 = 1 THEN RowGroup((n - 1) \div 2) ELSE ColGroup((n - 1) \div 2)]
  \o [n \in 1..9 |-> BlockGroup((n - 1) \div 3, (n - 1) % 3)]

checkFrom(st, groups, n) ==
  IF n > Len(groups) \/ ~st.ok THEN st
  ELSE checkFrom(checkGroup(st, groups[n]), groups, n + 1)

check(st) == checkFrom(st, Groups, 1)

(***************************************************************************)
(* recurse: the choice of the square to guess from.                        *)
(***************************************************************************)
RECURSIVE scanGrey(_, _, _, _)
RECURSIVE scanAll(_, _, _)
RECURSIVE scanRow(_, _, _, _)
RECURSIVE scanGreyLast(_, _, _, _)
RECURSIVE scanRowNoTie(_, _, _, _)
RECURSIVE Flatten(_, _)

MinInit == 100

\* the cells of the lines from line i on, line by line
Flatten(lines, i) ==
  IF i > Len(lines) THEN << >> ELSE lines[i] \o Flatten(lines, i + 1)

\* scanGrey that also takes a cell whose count equals the minimum so far
scanGreyLast(st, acc, cells, i) ==
  IF i > Len(cells) THEN acc
  ELSE LET r == cells[i][1]
           c == cells[i][2]
       IN scanGreyLast(st,
                       IF st.b[r][c] = 0 /\ Cardinality(st.p[r][c]) <= acc.min
                       THEN [min |-> Cardinality(st.p[r][c]), minCoords |-> <<r, c>>]
                       ELSE acc,
                       cells, i + 1)

\* for i in self.greys: for r,c in i: ... (acc = [min, minCoords])
scanGrey(st, acc, cells, i) ==
  IF i > Len(cells) THEN acc
  ELSE LET r == cells[i][1]
           c == cells[i][2]
       IN scanGrey(st,
                   IF st.b[r][c] = 0 /\ Cardinality(st.p[r][c]) < acc.min
                   THEN [min |-> Cardinality(st.p[r][c]), minCoords |-> <<r, c>>]
                   ELSE acc,
                   cells, i + 1)

\* scanRow without the preference for a purple cell among equal counts
scanRowNoTie(st, acc, i, j) ==
  IF j >= M THEN acc
  ELSE LET len == Cardinality(st.p[i][j])
           next == IF st.b[i][j] = 0 /\ len < acc.min
                   THEN [min |-> len, minCoords |-> <<i, j>>]
                   ELSE acc
       IN IF next.min >= 0 THEN scanRowNoTie(st, next, i, j + 1) ELSE acc

\* for j in range(M), from column j of row i
scanRow(st, acc, i, j) ==
  IF j >= M THEN acc
  ELSE LET len == Cardinality(st.p[i][j])
           next == IF st.b[i][j] = 0
                      /\ (len < acc.min \/ (len = acc.min /\ isPurple(i, j) # 0))
                   THEN [min |-> len, minCoords |-> <<i, j>>]
                   ELSE acc
       IN IF next.min >= 0 THEN scanRow(st, next, i, j + 1) ELSE acc

\* for i in range(M), from row i
scanAll(st, acc, i) ==
  IF i >= M THEN acc
  ELSE LET next == scanRow(st, acc, i, 0)
       IN IF next.min >= 0 THEN scanAll(st, next, i + 1) ELSE acc

\* selectGlobal that leaves the result of the first search as it is
selectGlobalSkip(st, acc) == acc

\* the second search, run when not greysLeft
selectGlobal(st, acc) == scanAll(st, acc, 0)

\* [min, minCoords, greysLeft] after both searches
select(st, greysLeft) ==
  LET a0 == [min |-> MinInit, minCoords |-> <<0, 0>>]
      a1 == IF greysLeft THEN scanGrey(st, a0, Flatten(greys, 1), 1) ELSE a0
      gl == IF greysLeft /\ a1.min = MinInit THEN FALSE ELSE greysLeft
      a2 == IF ~gl THEN selectGlobal(st, a1) ELSE a1
  IN [min |-> a2.min, minCoords |-> a2.minCoords, greysLeft |-> gl]

(***************************************************************************)
(* The run: reading the input, Board(...), recurse(0, True).               *)
(***************************************************************************)
\* the clue values of Base renamed cyclically: v becomes v - s (mod 9), so
\* that the renamed grids hold the value 9 in the cells of Pool
Relabel(v, s) == ((v - 1 + M - s) % M) + 1

PuzzleGrid(blanks, ov, s) ==
  [i \in Idx |-> [j \in Idx |->
     IF <<i, j>> \in blanks THEN 0
     ELSE IF ov.cell = <<i, j>> THEN Relabel(Base[ov.from[1] + 1][ov.from[2] + 1], s)
     ELSE Relabel(Base[i + 1][j + 1], s)]]

NoResult == [kind |-> "none", at |-> "", b |-> << >>]
Unsolvable(where) == [kind |-> "Unsolvable", at |-> where, b |-> << >>]
Solved(b) == [kind |-> "Solved", at |-> "", b |-> b]

Frame(st, greysLeft) ==
  [b |-> st.b, p |-> st.p, greysLeft |-> greysLeft, minCoords |-> <<0, 0>>, todo |-> {}]

Top == stack[Len(stack)]
TopState == [b |-> Top.b, p |-> Top.p, ok |-> TRUE]

Init ==
  \E blanks \in SUBSET Pool, setup \in Setups, s \in 0..MaxShift :
    /\ Cardinality(blanks) <= MaxBlanks
    /\ grid = PuzzleGrid(blanks, setup.ov, s)
    /\ greys = setup.greys
    /\ purples = setup.purples
    /\ stack = << >>
    /\ pc = "new"
    /\ result = NoResult

\* ImpossibleSetup leaves the top call of recurse: the caller's loop catches
\* it, or it leaves the root call uncaught
Unwind ==
  IF Len(stack) = 1
  THEN /\ stack' = << >>
       /\ pc' = "done"
       /\ result' = Unsolvable("recurse")
  ELSE /\ stack' = SubSeq(stack, 1, Len(stack) - 1)
       /\ pc' = "branch"
       /\ UNCHANGED result

\* s = Board(board, ...) followed by the call s.recurse(0, True)
Construct ==
  /\ pc = "new"
  /\ LET st == NewBoard(grid)
     IN IF st.ok
        THEN /\ stack' = <<Frame(st, TRUE)>>
             /\ pc' = "check"
             /\ UNCHANGED result
        ELSE /\ stack' = << >>
             /\ pc' = "done"
             /\ result' = Unsolvable("init")
  /\ UNCHANGED <<grid, greys, purples>>

\* recurse: self.check()
Check ==
  /\ pc = "check"
  /\ LET st == check(TopState)
     IN IF st.ok
        THEN /\ stack' = [stack EXCEPT ![Len(stack)].b = st.b, ![Len(stack)].p = st.p]
             /\ pc' = "select"
             /\ UNCHANGED result
        ELSE Unwind
  /\ UNCHANGED <<grid, greys, purples>>

\* recurse: the search for minCoords; return self.b when none is found
Select ==
  /\ pc = "select"
  /\ LET s == select(TopState, Top.greysLeft)
     IN IF s.min = MinInit
        THEN /\ stack' = << >>
             /\ pc' = "done"
             /\ result' = Solved(Top.b)
        ELSE /\ stack' = [stack EXCEPT ![Len(stack)].greysLeft = s.greysLeft,
                                       ![Len(stack)].minCoords = s.minCoords,
                                       ![Len(stack)].todo = Top.p[s.minCoords[1]][s.minCoords[2]]]
             /\ pc' = "branch"
             /\ UNCHANGED result
  /\ UNCHANGED <<grid, greys, purples>>

\* Try without the copy: addNumber works on the board of the caller itself
TryInPlace(k) ==
  /\ pc = "branch"
  /\ k \in Top.todo
  /\ LET st == addNumber(TopState, k, Top.minCoords[1], Top.minCoords[2])
         rest == [stack EXCEPT ![Len(stack)].todo = @ \ {k},
                               ![Len(stack)].b = st.b,
                               ![Len(stack)].p = st.p]
     IN IF st.ok
        THEN /\ stack' = Append(rest, Frame(st, Top.greysLeft))
             /\ pc' = "check"
        ELSE /\ stack' = rest
             /\ pc' = "branch"
  /\ UNCHANGED <<grid, greys, purples, result>>

\* Try that leaves the candidate among those still to try
TryKeep(k) ==
  /\ pc = "branch"
  /\ k \in Top.todo
  /\ LET st == addNumber(TopState, k, Top.minCoords[1], Top.minCoords[2])
     IN IF st.ok
        THEN /\ stack' = Append(stack, Frame(st, Top.greysLeft))
             /\ pc' = "check"
        ELSE /\ stack' = stack
             /\ pc' = "branch"
  /\ UNCHANGED <<grid, greys, purples, result>>

\* recurse: one turn of "for k in self.p[...]": copy the board, addNumber,
\* and recurse into the copy unless ImpossibleSetup was raised
Try(k) ==
  /\ pc = "branch"
  /\ k \in Top.todo
  /\ LET st == addNumber(TopState, k, Top.minCoords[1], Top.minCoords[2])
         rest == [stack EXCEPT ![Len(stack)].todo = @ \ {k}]
     IN IF st.ok
        THEN /\ stack' = Append(rest, Frame(st, Top.greysLeft))
             /\ pc' = "check"
        ELSE /\ stack' = rest
             /\ pc' = "branch"
  /\ UNCHANGED <<grid, greys, purples, result>>

\* recurse: no possibility worked, raise ImpossibleSetup
Exhausted ==
  /\ pc = "branch"
  /\ Top.todo = {}
  /\ Unwind
  /\ UNCHANGED <<grid, greys, purples>>

Next ==
  \/ Construct
  \/ Check
  \/ Select
  \/ \E k \in Vals : Try(k)
  \/ Exhausted

Spec == Init /\ [][Next]_vars

(***************************************************************************)
(* The construction taken one statement at a time: Board.__init__ up to    *)
(* the call of updatePossibilities, then for every clue the statement      *)
(* self.b[i][j] = 0 and the call self.addNumber(key,i,j) as two steps.     *)
(***************************************************************************)
\* the first cell at or after (i, j), row by row, that holds a value; <<M, 0>>
\* when there is none
NextClue(b, i, j) ==
  LET S == { n \in (M * i + j)..(M * M - 1) : b[n \div M][n % M] # 0 }
  IN IF S = {} THEN <<M, 0>>
     ELSE LET n == CHOOSE m \in S : \A k \in S : m <= k
          IN <<n \div M, n % M>>

\* the board under construction: minCoords holds the loop indices (i, j) and
\* todo the local variable key, when it is set
PopFrame(st, at, key) ==
  [b |-> st.b, p |-> st.p, greysLeft |-> TRUE, minCoords |-> at, todo |-> key]

\* Board.__init__: self.b = b, every self.p[i][j] = {1..9}
PopStart ==
  /\ pc = "new"
  /\ stack' = <<PopFrame([b |-> grid, p |-> [i \in Idx |-> [j \in Idx |-> Vals]]],
                         <<0, 0>>, {})>>
  /\ pc' = "clear"
  /\ UNCHANGED <<grid, greys, purples, result>>

\* updatePossibilities: the loops run on to the next cell with a value, then
\* key = self.b[i][j]; self.b[i][j] = 0.  After the last cell the board is
\* built and s.recurse(0, True) is called.
PopClear ==
  /\ pc = "clear"
  /\ LET at == NextClue(Top.b, Top.minCoords[1], Top.minCoords[2])
     IN IF at[1] >= M
        THEN /\ stack' = <<Frame(TopState, TRUE)>>
             /\ pc' = "check"
        ELSE /\ stack' = <<PopFrame([TopState EXCEPT !.b[at[1]][at[2]] = 0], at,
                                    {Top.b[at[1]][at[2]]})>>
             /\ pc' = "add"
  /\ UNCHANGED <<grid, greys, purples, result>>

\* updatePossibilities: self.addNumber(key,i,j); ImpossibleSetup leaves the
\* program
PopAdd ==
  /\ pc = "add"
  /\ LET at == Top.minCoords
         key == CHOOSE k \in Top.todo : TRUE
         st == addNumber(TopState, key, at[1], at[2])
     IN IF st.ok
        THEN /\ stack' = <<PopFrame(st, <<at[1], at[2] + 1>>, {})>>
             /\ pc' = "clear"
             /\ UNCHANGED result
        ELSE /\ stack' = << >>
             /\ pc' = "done"
             /\ result' = Unsolvable("init")
  /\ UNCHANGED <<grid, greys, purples>>

PopNext ==
  \/ PopStart
  \/ PopClear
  \/ PopAdd
  \/ Check
  \/ Select
  \/ \E k \in Vals : Try(k)
  \/ Exhausted

PopSpec == Init /\ [][PopNext]_vars

\* a statement is left to execute: every state before the end has a step of
\* Next (Construct, Check and Select have no guard but pc; with pc = "branch"
\* either Exhausted or a Try is possible), and every step changes vars
Running == pc # "done"

\* the interpreter runs the program on, a step that can be taken is taken:
\* weak fairness of Next, with ENABLED <<Next>>_vars written as Running
FairSpec == Spec /\ ([]<>(~Running) \/ []<><<Next>>_vars)

(***************************************************************************)
(* What a solution is, stated on grids and independently of the solver.    *)
(***************************************************************************)
RECURSIVE Complete(_, _)

GroupSet == { { Groups[n][k] : k \in 1..9 } : n \in 1..Len(Groups) }

\* each value 1..9 exactly once in every row, column and 3x3 block
Uniq(g) == \A G \in GroupSet : \A v \in Vals : Cardinality({ c \in G : g[c[1]][c[2]] = v }) = 1

\* every grey line reads the same in both directions
MirrorOK(g) ==
  \A n \in 1..Len(greys) : \A i \in 1..Len(greys[n]) :
    LET a == greys[n][i]
        z == greys[n][Len(greys[n]) + 1 - i]
    IN g[a[1]][a[2]] = g[z[1]][z[2]]

\* the values on a line are as many distinct consecutive integers as it has cells
Consecutive(g, line) ==
  LET vs == { g[c[1]][c[2]] : c \in line }
  IN /\ Cardinality(vs) = Cardinality(line)
     /\ \A v \in vs : \A w \in vs : v - w < Cardinality(line)

RangeOK(g) == \A n \in 1..Len(purples) : Consecutive(g, purples[n])

Valid(g) == Uniq(g) /\ MirrorOK(g) /\ RangeOK(g)

\* v already stands in the row, column or block of cell c of g
PeerHas(g, c, v) ==
  \E G \in GroupSet : c \in G /\ \E d \in G : d # c /\ g[d[1]][d[2]] = v

\* all valid complete grids that fill the cells `empty` of g
Complete(g, empty) ==
  IF empty = {} THEN (IF Valid(g) THEN {g} ELSE {})
  ELSE LET c == CHOOSE x \in empty : TRUE
       IN UNION { Complete([g EXCEPT ![c[1]][c[2]] = v], empty \ {c}) :
                  v \in { w \in Vals : ~PeerHas(g, c, w) } }

Empty(g) == { c \in Cells : g[c[1]][c[2]] = 0 }

\* the valid complete grids that extend g
Sols(g) == Complete(g, Empty(g))

\* two clues with the same value share a row, a column or a block
GivensClash ==
  \E G \in GroupSet : \E c \in G : \E d \in G :
    c # d /\ grid[c[1]][c[2]] # 0 /\ grid[c[1]][c[2]] = grid[d[1]][d[2]]

GreyCells == UNION { { greys[n][i] : i \in 1..Len(greys[n]) } : n \in 1..Len(greys) }

(***************************************************************************)
(* Claims.                                                                 *)
(***************************************************************************)
\* C1: a grid returned by solve holds each value 1..9 exactly once in every
\* row, column and 3x3 block, also when values arrive by mirror propagation.
\* Stated for the puzzles whose clues do not clash: the clashing ones are
\* the subject of C4.
C1_Uniqueness == (~GivensClash /\ result.kind = "Solved") => Uniq(result.b)

\* C2: in a returned grid, on every grey line the cell at index i and the cell
\* at index L-1-i hold the same value.
C2_Mirror == result.kind = "Solved" => MirrorOK(result.b)

\* a grid was returned in which a cell of a grey line of two or more cells
\* was blank in the input
C2_Witness ==
  /\ result.kind = "Solved"
  /\ \E n \in 1..Len(greys) : \E i \in 1..Len(greys[n]) :
       /\ Len(greys[n]) >= 2
       /\ grid[greys[n][i][1]][greys[n][i][2]] = 0

\* C3: in a returned grid, every purple line none of whose cells is on a grey
\* line holds L pairwise distinct, consecutive integers.
C3_Range ==
  result.kind = "Solved" =>
    \A n \in 1..Len(purples) :
      purples[n] \cap GreyCells = {} => Consecutive(result.b, purples[n])

\* a grid was returned for a puzzle with a purple line off the grey lines,
\* one of whose cells was blank in the input
C3_Witness ==
  /\ result.kind = "Solved"
  /\ \E n \in 1..Len(purples) :
       /\ purples[n] \cap GreyCells = {}
       /\ \E c \in purples[n] : grid[c[1]][c[2]] = 0

\* C4: when two clues with the same value share a row, a column or a block,
\* solve never returns a grid.
C4_ClashUnsolvable == GivensClash => result.kind # "Solved"

\* C5: on a cell that holds w, addNumber(w) succeeds and changes nothing, and
\* addNumber(v) with v # w raises and changes no value and no candidate set.
C5_Idempotent ==
  stack # << >> =>
    \A c \in Cells : \A v \in Vals :
      Top.b[c[1]][c[2]] # 0 =>
        LET r == addNumber(TopState, v, c[1], c[2])
        IN /\ r.b = Top.b
           /\ r.p = Top.p
           /\ r.ok = (v = Top.b[c[1]][c[2]])

\* a board of the search on which a cell that was blank in the input holds a
\* value
C5_Witness ==
  /\ stack # << >>
  /\ \E c \in Cells : grid[c[1]][c[2]] = 0 /\ Top.b[c[1]][c[2]] # 0

\* C6: solve ends Unsolvable only if no valid complete grid extends the clues;
\* no board of the search has lost a candidate that a valid grid extending it
\* uses, and a call of recurse runs out of candidates only on a board that no
\* valid grid extends.
C6_Complete ==
  /\ result.kind = "Unsolvable" => Sols(grid) = {}
  /\ stack # << >> =>
       \A S \in Sols(Top.b) : \A c \in Empty(Top.b) : S[c[1]][c[2]] \in Top.p[c[1]][c[2]]
  /\ (pc = "branch" /\ Top.todo = {}) => Sols(Top.b) = {}

\* the root call of recurse ran out of candidates on a puzzle with blanks
C6_Witness ==
  /\ result.kind = "Unsolvable"
  /\ result.at = "recurse"
  /\ Empty(grid) # {}

\* a grid without blanks that satisfies uniqueness, and no lines
ScenarioA == Empty(grid) = {} /\ Uniq(grid) /\ greys = << >> /\ purples = << >>

\* C7: for a fully given valid grid without lines, solve raises nothing and
\* returns the input grid.
C7_ScenarioA ==
  ScenarioA => /\ result.kind # "Unsolvable"
               /\ pc = "done" => result = Solved(grid)

\* the run on such a grid has ended
C7_Witness == ScenarioA /\ pc = "done"

\* C8: a returned grid has a value 1..9 in all 81 cells and every clue still
\* holds its given value.
C8_AllAssigned ==
  result.kind = "Solved" =>
    \A c \in Cells :
      /\ result.b[c[1]][c[2]] \in Vals
      /\ grid[c[1]][c[2]] # 0 => result.b[c[1]][c[2]] = grid[c[1]][c[2]]

\* a grid was returned for a puzzle with a blank cell on a grey line and a
\* blank cell on no grey line
C8_Witness ==
  /\ result.kind = "Solved"
  /\ \E c \in Empty(grid) : c \in GreyCells
  /\ \E c \in Empty(grid) : c \notin GreyCells

\* C10: after a successful addNumber, no cell that lost a candidate in it is
\* still unassigned with exactly one candidate.
C10_Forced ==
  (pc = "check" /\ Len(stack) > 1) =>
    \A c \in Cells :
      (/\ Top.b[c[1]][c[2]] = 0
       /\ Top.p[c[1]][c[2]] # stack[Len(stack) - 1].p[c[1]][c[2]])
      => Cardinality(Top.p[c[1]][c[2]]) # 1

\* C11: a board that an addNumber (a clue of the construction, or the
\* candidate of a branch) has returned without raising has no empty cell whose
\* candidate set that addNumber emptied.
C11_EmptyRaises ==
  (~GivensClash /\ pc = "check") =>
    \A c \in Cells :
      (/\ Top.b[c[1]][c[2]] = 0
       /\ Top.p[c[1]][c[2]] #
            (IF Len(stack) > 1 THEN stack[Len(stack) - 1].p[c[1]][c[2]] ELSE Vals))
      => Top.p[c[1]][c[2]] # {}

\* C12: on every board, an empty cell of a purple line of length L has only
\* candidates strictly between v - L and v + L for every value v that an
\* addNumber has set on another cell of that line (a cell that is not also on
\* a grey line, for which addNumber takes the grey branch instead).
C12_RangeElimination ==
  stack # << >> =>
    \A n \in 1..Len(purples) : \A a \in purples[n] : \A c \in purples[n] :
      (/\ a # c
       /\ isGrey(a[1], a[2]) = 0
       /\ Top.b[a[1]][a[2]] # 0
       /\ Top.b[c[1]][c[2]] = 0)
      => \A k \in Top.p[c[1]][c[2]] :
           /\ k > Top.b[a[1]][a[2]] - Cardinality(purples[n])
           /\ k < Top.b[a[1]][a[2]] + Cardinality(purples[n])

\* the cells c and d are different and share a row, a column or a 3x3 square
Peers(c, d) == c # d /\ \E G \in GroupSet : c \in G /\ d \in G

\* C13: on every board after construction, no empty cell has as a candidate
\* a value held by a cell of its row, column or 3x3 square.
C13_PeerElimination ==
  stack # << >> =>
    \A c \in Cells : \A d \in Cells :
      (Peers(c, d) /\ Top.b[c[1]][c[2]] = 0 /\ Top.b[d[1]][d[2]] # 0)
      => Top.b[d[1]][d[2]] \notin Top.p[c[1]][c[2]]

\* a branch has set a cell whose value was a candidate of an empty peer in
\* the board of the caller, and the peer is still empty
C13_Witness ==
  /\ pc = "check"
  /\ Len(stack) > 1
  /\ \E c \in Cells : \E d \in Cells :
       /\ Peers(c, d)
       /\ stack[Len(stack) - 1].b[d[1]][d[2]] = 0
       /\ Top.b[d[1]][d[2]] # 0
       /\ Top.b[c[1]][c[2]] = 0
       /\ Top.b[d[1]][d[2]] \in stack[Len(stack) - 1].p[c[1]][c[2]]

\* C14: no step changes the board of a call of recurse that is waiting for a
\* descendant, a call that has chosen its square keeps its board while it
\* tries its candidates, and each new call starts from addNumber applied to
\* the board its caller had when it chose the square.
C14_BranchIsolation ==
  [][/\ \A i \in 1..Len(stack) :
          ((i < Len(stack) \/ pc = "branch") /\ i <= Len(stack'))
          => (stack'[i].b = stack[i].b /\ stack'[i].p = stack[i].p)
     /\ (pc = "branch" /\ Len(stack') > Len(stack))
          => \E k \in Top.p[Top.minCoords[1]][Top.minCoords[2]] :
               LET st == addNumber(TopState, k, Top.minCoords[1], Top.minCoords[2])
               IN st.ok /\ stack'[Len(stack')].b = st.b /\ stack'[Len(stack')].p = st.p
    ]_vars

\* a call of recurse has had a candidate fail and has another one to try
C14_Witness ==
  /\ pc = "branch"
  /\ Top.todo # {}
  /\ Top.todo # Top.p[Top.minCoords[1]][Top.minCoords[2]]

GreyOpen(g) ==
  { q \in UNION { { <<n, i>> : i \in 1..Len(greys[n]) } : n \in 1..Len(greys) } :
      g[greys[q[1]][q[2]][1]][greys[q[1]][q[2]][2]] = 0 }

\* position q comes before position r in line order, then cell order
Before(q, r) == q[1] < r[1] \/ (q[1] = r[1] /\ q[2] < r[2])

\* number of candidates of cell c on the board of the top call
Count(c) == Cardinality(Top.p[c[1]][c[2]])

\* C16: a call of recurse whose board has an empty grey cell chooses the
\* empty grey cell that has the fewest candidates and, among those, comes
\* first in line order then cell order.
C16_MirrorPhase ==
  (pc = "branch" /\ GreyOpen(Top.b) # {}) =>
    \E q \in GreyOpen(Top.b) :
      /\ Top.minCoords = greys[q[1]][q[2]]
      /\ \A r \in GreyOpen(Top.b) :
           /\ Count(greys[r[1]][r[2]]) >= Count(Top.minCoords)
           /\ Before(r, q) => Count(greys[r[1]][r[2]]) > Count(Top.minCoords)

\* a square was chosen where two empty grey cells share the fewest
\* candidates and an empty cell off the grey lines has no more than they
C16_Witness ==
  /\ pc = "branch"
  /\ \E q \in GreyOpen(Top.b) : \E r \in GreyOpen(Top.b) :
       /\ greys[q[1]][q[2]] # greys[r[1]][r[2]]
       /\ Count(greys[q[1]][q[2]]) = Count(Top.minCoords)
       /\ Count(greys[r[1]][r[2]]) = Count(Top.minCoords)
  /\ \E c \in Empty(Top.b) : c \notin GreyCells /\ Count(c) <= Count(Top.minCoords)

\* C17: a call of recurse whose board has no empty grey cell chooses an empty
\* cell with the fewest candidates of all empty cells, a purple one if any
\* empty cell with that count is purple; and below a call that searched all
\* cells every call does so too.
C17_GlobalPhase ==
  /\ (pc = "branch" /\ GreyOpen(Top.b) = {}) =>
       /\ ~Top.greysLeft
       /\ Top.minCoords \in Empty(Top.b)
       /\ \A c \in Empty(Top.b) : Count(c) >= Count(Top.minCoords)
       /\ (\E c \in Empty(Top.b) :
             Count(c) = Count(Top.minCoords) /\ isPurple(c[1], c[2]) # 0)
           => isPurple(Top.minCoords[1], Top.minCoords[2]) # 0
  /\ \A i \in 1..(Len(stack) - 1) : ~stack[i].greysLeft => ~stack[i + 1].greysLeft

\* a square was chosen among all cells where a purple and a non-purple empty
\* cell share the fewest candidates, below a call that searched all cells
C17_Witness ==
  /\ pc = "branch"
  /\ GreyOpen(Top.b) = {}
  /\ Len(stack) > 1
  /\ ~stack[Len(stack) - 1].greysLeft
  /\ \E c \in Empty(Top.b) : \E d \in Empty(Top.b) :
       /\ Count(c) = Count(Top.minCoords) /\ isPurple(c[1], c[2]) # 0
       /\ Count(d) = Count(Top.minCoords) /\ isPurple(d[1], d[2]) = 0

\* number of cells of g that hold a value
Filled(g) == Cardinality(Cells \ Empty(g))

\* C18: the run ends (recurse returns a grid or ImpossibleSetup leaves the
\* program), every call of recurse works on a board with more cells set than
\* the board of its caller, and every candidate a call tries leaves it with
\* fewer candidates to try.
C18_Terminates ==
  /\ <>(pc = "done")
  /\ [](\A i \in 1..(Len(stack) - 1) : Filled(stack[i + 1].b) > Filled(stack[i].b))
  /\ [][(pc = "branch" /\ pc' = "branch" /\ Len(stack') = Len(stack))
        => (stack'[Len(stack')].todo \subseteq Top.todo
            /\ stack'[Len(stack')].todo # Top.todo)]_vars

\* the run has ended for a puzzle with three blanks or more, one of them on a
\* grey line
C18_Witness ==
  /\ pc = "done"
  /\ Cardinality(Empty(grid)) >= 3
  /\ Empty(grid) \cap GreyCells # {}

\* a board that exists before and after the step keeps every value it held
KeepsValues ==
  \A i \in 1..Len(stack) : i <= Len(stack') =>
    \A c \in Cells :
      stack[i].b[c[1]][c[2]] # 0 => stack'[i].b[c[1]][c[2]] = stack[i].b[c[1]][c[2]]

\* the copy made for a branch holds, after its addNumber, every value the
\* copied board held
CopyKeepsValues ==
  (stack # << >> /\ Len(stack') > Len(stack)) =>
    \A c \in Cells :
      Top.b[c[1]][c[2]] # 0 => stack'[Len(stack')].b[c[1]][c[2]] = Top.b[c[1]][c[2]]

\* C19 as stated: from the moment a cell of a board holds a value, no step
\* on that board (population from the clues, addNumber, removePossibility,
\* checkPossibility, check, branching) changes the value of that cell.
C19_Immutable == [][KeepsValues /\ CopyKeepsValues]_vars

\* C19, amended: the only step that changes a value a cell holds is the
\* statement self.b[i][j] = 0 of updatePossibilities, and the step after it
\* sets the same value in the same cell again.
C19_ImmutableButCleared ==
  [][/\ \A i \in 1..Len(stack) : i <= Len(stack') =>
          \A c \in Cells :
            (/\ stack[i].b[c[1]][c[2]] # 0
             /\ stack'[i].b[c[1]][c[2]] # stack[i].b[c[1]][c[2]])
            => (/\ pc = "clear"
                /\ pc' = "add"
                /\ stack'[i].minCoords = c
                /\ stack'[i].b[c[1]][c[2]] = 0
                /\ stack'[i].todo = {stack[i].b[c[1]][c[2]]})
     /\ (pc = "add" /\ stack' # << >>)
          => stack'[1].b[Top.minCoords[1]][Top.minCoords[2]] \in Top.todo
     /\ CopyKeepsValues
    ]_vars

\* a clue has been set to 0 and is about to be added again
C19_Witness ==
  /\ pc = "add"
  /\ grid[Top.minCoords[1]][Top.minCoords[2]] # 0
  /\ Top.b[Top.minCoords[1]][Top.minCoords[2]] = 0

\* no call of checkPossibility comes before a call of removePossibility on a
\* cell without a value
TwoPass(calls) ==
  \A m \in 1..Len(calls) : \A n \in 1..Len(calls) :
    (m < n /\ calls[m].op = "checkPossibility")
    => ~(calls[n].op = "removePossibility" /\ calls[n].empty)

\* C20: when a branch sets a cell of a purple line, the loop over the line
\* has called removePossibility for every empty cell of the line before it
\* calls checkPossibility for any cell of the line, in at least one of the
\* orders in which the set of the line's cells can be visited.
C20_TwoPass ==
  (/\ pc = "branch"
   /\ isGrey(Top.minCoords[1], Top.minCoords[2]) = 0
   /\ isPurple(Top.minCoords[1], Top.minCoords[2]) # 0)
  => \A k \in Top.todo :
       LET st == purpleEntry(TopState, k, Top.minCoords[1], Top.minCoords[2])
       IN st.ok =>
            \E q \in Orders(purples[isPurple(Top.minCoords[1], Top.minCoords[2])]) :
              TwoPass(purpleCalls(st, k, Top.minCoords[1], Top.minCoords[2], q, 1))

====
